---- MODULE Spec2Model ----
(***************************************************************************)
(* Model of GmsDemo.cpp: the driver main() that loads dog01.jpg and        *)
(* dog02.jpg, shows them, validates them, extracts ORB features, computes  *)
(* brute-force candidate matches once and runs the GMS filter under three  *)
(* (rotation, scale) configurations, showing each result in its own window *)
(* and waiting for a key press after each.                                 *)
(*                                                                         *)
(* The program is single-threaded; pc is the position of main().  The      *)
(* OpenCV collaborators (imread, ORB, BFMatcher, matchGMS, drawMatches,    *)
(* highgui) are modelled by their contracts: what they return is drawn     *)
(* from the set of results the contract allows.                            *)
(***************************************************************************)
EXTENDS Integers, Sequences, FiniteSets

\* ---------------------------------------------------------------- bounds
\* Largest side of an image on disk (the images are d x d, 1 <= d <= MaxDim).
MaxDim == 2
\* Largest number of keypoints the extractor yields in the model.
MaxKP == 2

\* ------------------------------------------------------ program constants
MAX_FEATURES == 10000
EXIT_SUCCESS == 0
EXIT_FAILURE == 1

GMS_NO_RS_MATCHES_WINDOW_NAME == "GMS No Rotation or Scale Support"
GMS_RS_MATCHES_WINDOW_NAME == "GMS with Rotation and Scale Support"
GMS_NRS_MATCHES_WINDOW_NAME == "GMS with Scale Support and No Rotation"

DOG01_FILE == "dog01.jpg"
DOG02_FILE == "dog02.jpg"
DOG01_WINDOW == "Dog01 Image"
DOG02_WINDOW == "Dog02 Image"

\* The text main() writes to std::cerr when an image is invalid, as words.
LOAD_ERROR_MSG ==
  << "Unable", "to", "load", "images.", "Please", "check", "that",
     "dog01.jpg", "and", "dog02.jpg", "images", "exist", "in", "the", "same",
     "folder", "as", "the", "executable." >>

\* The text main() writes to std::cerr when detection fails, as words.
DETECT_ERROR_MSG ==
  << "Invalid", "detector", "type", "provided.", "Unable", "to", "detect",
     "and", "compute", "keypoints", "and", "descriptors", "with", "selected",
     "detector", "type." >>

\* enum DETECTOR_TYPE {ORB}
ORB == "ORB"

\* ------------------------------------------------------------ data types
\* cv::Mat: extents, where the pixels come from, and how many match lines
\* are drawn on it.  A default-constructed or undecodable Mat is empty.
EmptyMat == [cols |-> 0, rows |-> 0, src |-> "empty", nlines |-> 0]

\* What a file on disk can be.
FileStates ==
  { [kind |-> "missing", cols |-> 0, rows |-> 0],
    [kind |-> "corrupt", cols |-> 0, rows |-> 0] }
  \cup { [kind |-> "image", cols |-> d, rows |-> d] : d \in 1..MaxDim }

Max(a, b) == IF a >= b THEN a ELSE b
Min(a, b) == IF a <= b THEN a ELSE b

RECURSIVE Pick(_, _, _)
\* The subsequence of s at the indices in I, from index i on.
Pick(s, I, i) ==
  IF i > Len(s) THEN << >>
  ELSE (IF i \in I THEN << s[i] >> ELSE << >>) \o Pick(s, I, i + 1)

\* Mat::size()
Size(m) == [width |-> m.cols, height |-> m.rows]

VARIABLES
  disk,        \* file name -> what is on disk
  pc,          \* position of main()
  dog01, dog02,            \* the two loaded images
  dog01KP, dog02KP,        \* keypoint vectors
  dog01Desc, dog02Desc,    \* descriptor matrices
  img1detect, img2detect,  \* results of the two detectAndCompute calls
  matchesAll,  \* the candidate matches
  call,        \* which of main()'s three gmsCreateDisplayMatches calls runs
  matchesGMS,  \* gmsCreateDisplayMatches' local filtered match vector
  windows,     \* highgui's window registry, in creation order
  opened,      \* log: names of the windows created, in creation order
  gmsCalls,    \* log: argument records received by the GMS provider
  nMatchCalls, \* log: number of computeMatches calls
  stdout,      \* lines written to std::cout
  stderr,      \* lines written to std::cerr
  exitCode,    \* << >> while running, << code >> once main() has returned
  keys,        \* key presses consumed by waitKey(0)
  faultAt      \* window names whose creation the toolkit refused

vars ==
  << disk, pc, dog01, dog02, dog01KP, dog02KP, dog01Desc, dog02Desc,
     img1detect, img2detect, matchesAll, call, matchesGMS, windows, opened,
     gmsCalls, nMatchCalls, stdout, stderr, exitCode, keys, faultAt >>

\* ---------------------------------------------------------- collaborators
\* cv::imread: the decoded image, or an empty Mat on any failure.
imread(path) ==
  IF disk[path].kind = "image"
  THEN [cols |-> disk[path].cols, rows |-> disk[path].rows,
        src |-> path, nlines |-> 0]
  ELSE EmptyMat

\* isValidImage
isValidImage(image) == ~(image.cols = 0 \/ image.rows = 0)

\* createDetector: the ORB extractor for ORB, nullptr otherwise.
createDetector(detectorType) ==
  IF detectorType = ORB
  THEN [null |-> FALSE, nfeatures |-> MAX_FEATURES]
  ELSE [null |-> TRUE, nfeatures |-> 0]

\* Feature2D::detectAndCompute on an image: the possible keypoint vectors,
\* at most nfeatures long; the descriptor matrix has one row per keypoint.
ExtractorKeypoints(detector, image) ==
  { [i \in 1..n |-> [img |-> image.src, id |-> i - 1]] :
      n \in 0..Min(MaxKP, detector.nfeatures) }

DescriptorsOf(image, keyPoints) == [src |-> image.src, rows |-> Len(keyPoints)]

\* BFMatcher(NORM_HAMMING, false)::match: one match per query row, each to
\* some train row; nothing when either matrix is empty.
BFMatch(descriptor1, descriptor2) ==
  IF descriptor1.rows = 0 \/ descriptor2.rows = 0 THEN { << >> }
  ELSE { [i \in 1..descriptor1.rows |->
            [queryIdx |-> i - 1, trainIdx |-> f[i]]] :
          f \in [1..descriptor1.rows -> 0..(descriptor2.rows - 1)] }

\* xfeatures2d::matchGMS: the possible outputs for an argument record, each
\* a subsequence of the matches it was given.
matchGMS(args) ==
  { Pick(args.matches1to2, I, 1) : I \in SUBSET (1..Len(args.matches1to2)) }

\* cv::drawMatches: both images side by side with one line per match.
drawMatches(image1, kp1, image2, kp2, matches) ==
  [cols |-> image1.cols + image2.cols,
   rows |-> Max(image1.rows, image2.rows),
   src |-> "drawMatches",
   nlines |-> Len(matches)]

\* ---------------------------------------------------------------- highgui
HasWindow(ws, name) == \E i \in 1..Len(ws) : ws[i].name = name

\* cv::namedWindow: creates the window unless one of that name exists.
namedWindow(ws, name) ==
  IF HasWindow(ws, name) THEN ws
  ELSE Append(ws, [name |-> name, width |-> 0, height |-> 0,
                   image |-> EmptyMat])

\* cv::resizeWindow
resizeWindow(ws, name, width, height) ==
  [i \in 1..Len(ws) |->
     IF ws[i].name = name
     THEN [ws[i] EXCEPT !.width = width, !.height = height]
     ELSE ws[i]]

\* cv::imshow
imshow(ws, name, mat) ==
  [i \in 1..Len(ws) |->
     IF ws[i].name = name THEN [ws[i] EXCEPT !.image = mat] ELSE ws[i]]

\* displayMatches: namedWindow, resizeWindow, imshow.
displayMatches(ws, imageMatches, windowName) ==
  imshow(resizeWindow(namedWindow(ws, windowName), windowName,
                      imageMatches.cols, imageMatches.rows),
         windowName, imageMatches)

\* The creation log after displayMatches on windowName.
OpenedAfter(ws, log, windowName) ==
  IF HasWindow(ws, windowName) THEN log ELSE Append(log, windowName)

\* ------------------------------------------------------- helper functions
\* detectAndCompute: the possible results.  With a null detector it returns
\* false and leaves the outputs as they were; otherwise it prints a line,
\* lets the extractor fill the outputs and returns true.
detectAndCompute(detectorType, image, keyPoints, descriptors) ==
  LET detector == createDetector(detectorType) IN
  IF detector.null
  THEN { [ok |-> FALSE, keyPoints |-> keyPoints, descriptors |-> descriptors,
          printed |-> << >>] }
  ELSE { [ok |-> TRUE, keyPoints |-> kps,
          descriptors |-> DescriptorsOf(image, kps),
          printed |-> << [kind |-> "detect"] >>] :
           kps \in ExtractorKeypoints(detector, image) }

\* computeMatches: the possible candidate match vectors.
computeMatches(descriptor1, descriptor2) == BFMatch(descriptor1, descriptor2)

\* GmsConfigs with the flags of the second and third call exchanged.
GmsConfigs_SwappedFlags ==
  << [windowName |-> GMS_NO_RS_MATCHES_WINDOW_NAME,
      rotation |-> FALSE, scale |-> FALSE],
     [windowName |-> GMS_RS_MATCHES_WINDOW_NAME,
      rotation |-> FALSE, scale |-> TRUE],
     [windowName |-> GMS_NRS_MATCHES_WINDOW_NAME,
      rotation |-> TRUE, scale |-> TRUE] >>

\* The (window name, rotation, scale) of main()'s three
\* gmsCreateDisplayMatches calls, in program order.
GmsConfigs ==
  << [windowName |-> GMS_NO_RS_MATCHES_WINDOW_NAME,
      rotation |-> FALSE, scale |-> FALSE],
     [windowName |-> GMS_RS_MATCHES_WINDOW_NAME,
      rotation |-> TRUE, scale |-> TRUE],
     [windowName |-> GMS_NRS_MATCHES_WINDOW_NAME,
      rotation |-> FALSE, scale |-> TRUE] >>

\* The parameters main() passes in its k-th gmsCreateDisplayMatches call.
MainCall(k) ==
  [image1 |-> dog01, image2 |-> dog02, kp1 |-> dog01KP, kp2 |-> dog02KP,
   matchesAll |-> matchesAll,
   windowName |-> GmsConfigs[k].windowName,
   rotation |-> GmsConfigs[k].rotation,
   scale |-> GmsConfigs[k].scale]

\* GmsArgs filtering the previous call's output instead of the candidates.
GmsArgs_Cascade(p) ==
  [size1 |-> Size(p.image1), size2 |-> Size(p.image1),
   keypoints1 |-> p.kp1, keypoints2 |-> p.kp2,
   matches1to2 |-> IF gmsCalls = << >> THEN p.matchesAll ELSE matchesGMS,
   withRotation |-> p.rotation, withScale |-> p.scale]

\* The arguments gmsCreateDisplayMatches hands to xfeatures2d::matchGMS.
GmsArgs(p) ==
  [size1 |-> Size(p.image1), size2 |-> Size(p.image1),
   keypoints1 |-> p.kp1, keypoints2 |-> p.kp2,
   matches1to2 |-> p.matchesAll,
   withRotation |-> p.rotation, withScale |-> p.scale]

\* ------------------------------------------------------------------- Init
Init ==
  /\ disk \in [{DOG01_FILE, DOG02_FILE} -> FileStates]
  /\ pc = "load"
  /\ dog01 = EmptyMat
  /\ dog02 = EmptyMat
  /\ dog01KP = << >>
  /\ dog02KP = << >>
  /\ dog01Desc = [src |-> "empty", rows |-> 0]
  /\ dog02Desc = [src |-> "empty", rows |-> 0]
  /\ img1detect = FALSE
  /\ img2detect = FALSE
  /\ matchesAll = << >>
  /\ call = 0
  /\ matchesGMS = << >>
  /\ windows = << >>
  /\ opened = << >>
  /\ gmsCalls = << >>
  /\ nMatchCalls = 0
  /\ stdout = << >>
  /\ stderr = << >>
  /\ exitCode = << >>
  /\ keys = 0
  /\ faultAt = {}

\* ---------------------------------------------------------------- actions
\* main(): the two imread calls.
LoadImages ==
  /\ pc = "load"
  /\ dog01' = imread(DOG01_FILE)
  /\ dog02' = imread(DOG02_FILE)
  /\ pc' = "show1"
  /\ UNCHANGED << disk, dog01KP, dog02KP, dog01Desc, dog02Desc, img1detect,
                  img2detect, matchesAll, call, matchesGMS, windows, opened,
                  gmsCalls, nMatchCalls, stdout, stderr, exitCode, keys,
                  faultAt >>

\* main(): displayMatches(dog01, "Dog01 Image").
ShowDog01 ==
  /\ pc = "show1"
  /\ windows' = displayMatches(windows, dog01, DOG01_WINDOW)
  /\ opened' = OpenedAfter(windows, opened, DOG01_WINDOW)
  /\ pc' = "show2"
  /\ UNCHANGED << disk, dog01, dog02, dog01KP, dog02KP, dog01Desc, dog02Desc,
                  img1detect, img2detect, matchesAll, call, matchesGMS,
                  gmsCalls, nMatchCalls, stdout, stderr, exitCode, keys,
                  faultAt >>

\* ShowDog02 with the first window's name.
ShowDog02_ReusesDog01Window ==
  /\ pc = "show2"
  /\ windows' = displayMatches(windows, dog02, DOG01_WINDOW)
  /\ opened' = OpenedAfter(windows, opened, DOG01_WINDOW)
  /\ pc' = "validate"
  /\ UNCHANGED << disk, dog01, dog02, dog01KP, dog02KP, dog01Desc, dog02Desc,
                  img1detect, img2detect, matchesAll, call, matchesGMS,
                  gmsCalls, nMatchCalls, stdout, stderr, exitCode, keys,
                  faultAt >>

\* main(): displayMatches(dog02, "Dog02 Image").
ShowDog02 ==
  /\ pc = "show2"
  /\ windows' = displayMatches(windows, dog02, DOG02_WINDOW)
  /\ opened' = OpenedAfter(windows, opened, DOG02_WINDOW)
  /\ pc' = "validate"
  /\ UNCHANGED << disk, dog01, dog02, dog01KP, dog02KP, dog01Desc, dog02Desc,
                  img1detect, img2detect, matchesAll, call, matchesGMS,
                  gmsCalls, nMatchCalls, stdout, stderr, exitCode, keys,
                  faultAt >>

\* Validate failing only when both images are invalid.
Validate_BothInvalid ==
  /\ pc = "validate"
  /\ IF ~isValidImage(dog01) /\ ~isValidImage(dog02)
     THEN /\ stderr' = Append(stderr, LOAD_ERROR_MSG)
          /\ exitCode' = << EXIT_FAILURE >>
          /\ pc' = "exited"
     ELSE /\ pc' = "detect1"
          /\ UNCHANGED << stderr, exitCode >>
  /\ UNCHANGED << disk, dog01, dog02, dog01KP, dog02KP, dog01Desc, dog02Desc,
                  img1detect, img2detect, matchesAll, call, matchesGMS,
                  windows, opened, gmsCalls, nMatchCalls, stdout, keys,
                  faultAt >>

\* main(): the validity check; on failure one line to std::cerr and
\* return EXIT_FAILURE.
Validate ==
  /\ pc = "validate"
  /\ IF ~isValidImage(dog01) \/ ~isValidImage(dog02)
     THEN /\ stderr' = Append(stderr, LOAD_ERROR_MSG)
          /\ exitCode' = << EXIT_FAILURE >>
          /\ pc' = "exited"
     ELSE /\ pc' = "detect1"
          /\ UNCHANGED << stderr, exitCode >>
  /\ UNCHANGED << disk, dog01, dog02, dog01KP, dog02KP, dog01Desc, dog02Desc,
                  img1detect, img2detect, matchesAll, call, matchesGMS,
                  windows, opened, gmsCalls, nMatchCalls, stdout, keys,
                  faultAt >>

\* main(): img1detect = detectAndCompute(ORB, dog01, dog01KP, dog01Desc).
Detect1 ==
  /\ pc = "detect1"
  /\ \E r \in detectAndCompute(ORB, dog01, dog01KP, dog01Desc) :
       /\ img1detect' = r.ok
       /\ dog01KP' = r.keyPoints
       /\ dog01Desc' = r.descriptors
       /\ stdout' = stdout \o r.printed
  /\ pc' = "detect2"
  /\ UNCHANGED << disk, dog01, dog02, dog02KP, dog02Desc, img2detect,
                  matchesAll, call, matchesGMS, windows, opened, gmsCalls,
                  nMatchCalls, stderr, exitCode, keys, faultAt >>

\* main(): img2detect = detectAndCompute(ORB, dog02, dog02KP, dog02Desc).
Detect2 ==
  /\ pc = "detect2"
  /\ \E r \in detectAndCompute(ORB, dog02, dog02KP, dog02Desc) :
       /\ img2detect' = r.ok
       /\ dog02KP' = r.keyPoints
       /\ dog02Desc' = r.descriptors
       /\ stdout' = stdout \o r.printed
  /\ pc' = "checkDetect"
  /\ UNCHANGED << disk, dog01, dog02, dog01KP, dog01Desc, img1detect,
                  matchesAll, call, matchesGMS, windows, opened, gmsCalls,
                  nMatchCalls, stderr, exitCode, keys, faultAt >>

\* main(): the detection check; on failure one line to std::cerr and
\* return EXIT_FAILURE.
CheckDetect ==
  /\ pc = "checkDetect"
  /\ IF ~img1detect \/ ~img2detect
     THEN /\ stderr' = Append(stderr, DETECT_ERROR_MSG)
          /\ exitCode' = << EXIT_FAILURE >>
          /\ pc' = "exited"
     ELSE /\ pc' = "match"
          /\ UNCHANGED << stderr, exitCode >>
  /\ UNCHANGED << disk, dog01, dog02, dog01KP, dog02KP, dog01Desc, dog02Desc,
                  img1detect, img2detect, matchesAll, call, matchesGMS,
                  windows, opened, gmsCalls, nMatchCalls, stdout, keys,
                  faultAt >>

\* main(): matchesAll = computeMatches(dog01Desc, dog02Desc), then entry
\* into the first gmsCreateDisplayMatches call.
ComputeMatches ==
  /\ pc = "match"
  /\ matchesAll' \in computeMatches(dog01Desc, dog02Desc)
  /\ nMatchCalls' = nMatchCalls + 1
  /\ call' = 1
  /\ pc' = "gms_filter"
  /\ UNCHANGED << disk, dog01, dog02, dog01KP, dog02KP, dog01Desc, dog02Desc,
                  img1detect, img2detect, matchesGMS, windows, opened,
                  gmsCalls, stdout, stderr, exitCode, keys, faultAt >>

\* gmsCreateDisplayMatches: matchGMS into a fresh matchesGMS, then the
\* "MatchGMS Size" line.
GmsFilter ==
  /\ pc = "gms_filter"
  /\ LET args == GmsArgs(MainCall(call)) IN
       /\ matchesGMS' \in matchGMS(args)
       /\ gmsCalls' = Append(gmsCalls, args)
  /\ stdout' = Append(stdout, [kind |-> "gmsSize", n |-> Len(matchesGMS')])
  /\ pc' = "gms_display"
  /\ UNCHANGED << disk, dog01, dog02, dog01KP, dog02KP, dog01Desc, dog02Desc,
                  img1detect, img2detect, matchesAll, call, windows, opened,
                  nMatchCalls, stderr, exitCode, keys, faultAt >>

\* GmsDisplay that does not wait after the last configuration.
GmsDisplay_NoFinalWait ==
  /\ pc = "gms_display"
  /\ LET p == MainCall(call)
         imageMatches == drawMatches(p.image1, p.kp1, p.image2, p.kp2,
                                     matchesGMS)
     IN /\ windows' = displayMatches(windows, imageMatches, p.windowName)
        /\ opened' = OpenedAfter(windows, opened, p.windowName)
  /\ pc' = IF call < Len(GmsConfigs) THEN "gms_wait" ELSE "cleanup"
  /\ UNCHANGED << disk, dog01, dog02, dog01KP, dog02KP, dog01Desc, dog02Desc,
                  img1detect, img2detect, matchesAll, call, matchesGMS,
                  gmsCalls, nMatchCalls, stdout, stderr, exitCode, keys,
                  faultAt >>

\* gmsCreateDisplayMatches: drawMatches, then displayMatches under the
\* call's window name.
GmsDisplay ==
  /\ pc = "gms_display"
  /\ LET p == MainCall(call)
         imageMatches == drawMatches(p.image1, p.kp1, p.image2, p.kp2,
                                     matchesGMS)
     IN /\ windows' = displayMatches(windows, imageMatches, p.windowName)
        /\ opened' = OpenedAfter(windows, opened, p.windowName)
  /\ pc' = "gms_wait"
  /\ UNCHANGED << disk, dog01, dog02, dog01KP, dog02KP, dog01Desc, dog02Desc,
                  img1detect, img2detect, matchesAll, call, matchesGMS,
                  gmsCalls, nMatchCalls, stdout, stderr, exitCode, keys,
                  faultAt >>

\* WaitKey that returns without a key press (a non-blocking waitKey).
WaitKey_NoBlock ==
  /\ pc = "gms_wait"
  /\ keys' = keys
  /\ IF call < Len(GmsConfigs)
     THEN /\ call' = call + 1
          /\ pc' = "gms_filter"
     ELSE /\ call' = call
          /\ pc' = "cleanup"
  /\ matchesGMS' = << >>
  /\ UNCHANGED << disk, dog01, dog02, dog01KP, dog02KP, dog01Desc, dog02Desc,
                  img1detect, img2detect, matchesAll, windows, opened,
                  gmsCalls, nMatchCalls, stdout, stderr, exitCode, faultAt >>

\* gmsCreateDisplayMatches: waitKey(0) returns on a key press; the call
\* returns to main() (its local matchesGMS is gone), which makes its next
\* call or goes on to clean up.
WaitKey ==
  /\ pc = "gms_wait"
  /\ keys' = keys + 1
  /\ IF call < Len(GmsConfigs)
     THEN /\ call' = call + 1
          /\ pc' = "gms_filter"
     ELSE /\ call' = call
          /\ pc' = "cleanup"
  /\ matchesGMS' = << >>
  /\ UNCHANGED << disk, dog01, dog02, dog01KP, dog02KP, dog01Desc, dog02Desc,
                  img1detect, img2detect, matchesAll, windows, opened,
                  gmsCalls, nMatchCalls, stdout, stderr, exitCode, faultAt >>

\* main(): destroyAllWindows() and return EXIT_SUCCESS.
Cleanup ==
  /\ pc = "cleanup"
  /\ windows' = << >>
  /\ exitCode' = << EXIT_SUCCESS >>
  /\ pc' = "exited"
  /\ UNCHANGED << disk, dog01, dog02, dog01KP, dog02KP, dog01Desc, dog02Desc,
                  img1detect, img2detect, matchesAll, call, matchesGMS,
                  opened, gmsCalls, nMatchCalls, stdout, stderr, keys,
                  faultAt >>

\* The toolkit cannot create the window of a displayMatches call: it throws
\* cv::Exception, which nothing in main() catches, so the process is
\* terminated without main() returning.
DisplayThrows ==
  /\ pc \in {"show1", "show2", "gms_display"}
  /\ faultAt' = faultAt \cup
       { IF pc = "show1" THEN DOG01_WINDOW
         ELSE IF pc = "show2" THEN DOG02_WINDOW
         ELSE MainCall(call).windowName }
  /\ pc' = "aborted"
  /\ UNCHANGED << disk, dog01, dog02, dog01KP, dog02KP, dog01Desc, dog02Desc,
                  img1detect, img2detect, matchesAll, call, matchesGMS,
                  windows, opened, gmsCalls, nMatchCalls, stdout, stderr,
                  exitCode, keys >>

Next ==
  \/ LoadImages
  \/ ShowDog01
  \/ ShowDog02
  \/ Validate
  \/ Detect1
  \/ Detect2
  \/ CheckDetect
  \/ ComputeMatches
  \/ GmsFilter
  \/ GmsDisplay
  \/ WaitKey
  \/ Cleanup

\* The driver with a working windowing toolkit.
Spec == Init /\ [][Next]_vars

\* The driver runs to completion and every waitKey(0) is answered.
FairSpec == Spec /\ WF_vars(Next)

NextFault == Next \/ DisplayThrows

\* The driver with a toolkit that may fail to create a window.
SpecDisplayFault == Init /\ [][NextFault]_vars

\* ----------------------------------------------------------- properties
ValidInputs == isValidImage(dog01) /\ isValidImage(dog02)

Exited == pc = "exited"
ExitedOk == Exited /\ exitCode = << 0 >>
ExitedFailure == Exited /\ Len(exitCode) = 1 /\ exitCode[1] # 0

\* The window names of section 6, in creation order.
FiveWindows ==
  << "Dog01 Image", "Dog02 Image", "GMS No Rotation or Scale Support",
     "GMS with Rotation and Scale Support",
     "GMS with Scale Support and No Rotation" >>

GmsWindowNames ==
  { "GMS No Rotation or Scale Support", "GMS with Rotation and Scale Support",
    "GMS with Scale Support and No Rotation" }

\* The number of GMS windows created so far.
GmsShown == Cardinality({ i \in 1..Len(opened) : opened[i] \in GmsWindowNames })

\* The window name that describes a (rotation, scale) pair.
NameForFlags(rotation, scale) ==
  IF ~rotation /\ ~scale THEN "GMS No Rotation or Scale Support"
  ELSE IF rotation /\ scale THEN "GMS with Rotation and Scale Support"
  ELSE IF ~rotation /\ scale THEN "GMS with Scale Support and No Rotation"
  ELSE "none"

\* The (rotation, scale) pairs of section 3, in order.
FlagOrder == << << FALSE, FALSE >>, << TRUE, TRUE >>, << FALSE, TRUE >> >>

IsPrefix(s, t) ==
  /\ Len(s) <= Len(t)
  /\ \A i \in 1..Len(s) : s[i] = t[i]

IsSubsequence(a, b) == \E I \in SUBSET (1..Len(b)) : Pick(b, I, 1) = a

Names(line, word) == \E i \in 1..Len(line) : line[i] = word

\* C1: on a run where both images load as valid and both extractions
\* succeed, the windows are created in the order Dog01 Image, Dog02 Image,
\* the three GMS windows, there are exactly these five at exit, and the
\* exit code is 0.
C1_FiveWindowsInOrder ==
  /\ IsPrefix(opened, FiveWindows)
  /\ (Exited /\ ValidInputs /\ img1detect /\ img2detect)
       => (opened = FiveWindows /\ exitCode = << 0 >>)

C1_Witness ==
  /\ Exited /\ ValidInputs /\ img1detect /\ img2detect
  /\ opened = FiveWindows

C3_NoWindowLeftOnFatalExit == ExitedFailure => windows = << >>

\* C4: every argument record the GMS provider receives has the size of
\* image 1 first and the size of image 2 second, both keypoint vectors, the
\* candidate list and the flags of that call.
C4_BothSizesPassed ==
  \A i \in 1..Len(gmsCalls) :
    /\ gmsCalls[i].size1 = Size(dog01)
    /\ gmsCalls[i].size2 = Size(dog02)
    /\ gmsCalls[i].keypoints1 = dog01KP
    /\ gmsCalls[i].keypoints2 = dog02KP
    /\ gmsCalls[i].matches1to2 = matchesAll
    /\ << gmsCalls[i].withRotation, gmsCalls[i].withScale >> = FlagOrder[i]

\* C5: computeMatches runs at most once, and exactly once before any GMS
\* call; matchesAll never changes afterwards; every GMS call receives
\* matchesAll and the two keypoint vectors; each GMS output is a
\* subsequence of matchesAll and each printed size is between 0 and the
\* number of candidates.
C5_OneCommonCandidateSet ==
  /\ [](/\ nMatchCalls <= 1
        /\ (gmsCalls # << >> => nMatchCalls = 1)
        /\ \A i \in 1..Len(gmsCalls) :
             /\ gmsCalls[i].matches1to2 = matchesAll
             /\ gmsCalls[i].keypoints1 = dog01KP
             /\ gmsCalls[i].keypoints2 = dog02KP
        /\ (pc \in {"gms_display", "gms_wait"}
              => IsSubsequence(matchesGMS, matchesAll))
        /\ \A j \in 1..Len(stdout) :
             stdout[j].kind = "gmsSize"
               => (0 <= stdout[j].n /\ stdout[j].n <= Len(matchesAll)))
  /\ [][nMatchCalls >= 1 => matchesAll' = matchesAll]_vars

C5_Witness ==
  /\ ExitedOk
  /\ Len(gmsCalls) = 3
  /\ Len(matchesAll) >= 2
  /\ \E j \in 1..Len(stdout) :
       /\ stdout[j].kind = "gmsSize"
       /\ 0 < stdout[j].n
       /\ stdout[j].n < Len(matchesAll)

\* C6: the GMS filter of configuration k+1 runs, and its window is shown,
\* only after k key presses; the windows are closed, and the driver exits
\* with success, only after all three GMS windows have been shown.
C6_WaitBetweenConfigurations ==
  /\ Len(gmsCalls) <= keys + 1
  /\ GmsShown <= keys + 1
  /\ (pc = "gms_filter" => (Len(gmsCalls) = keys /\ GmsShown = keys))
  /\ (ExitedOk => (windows = << >> /\ GmsShown = 3))
  /\ ((windows = << >> /\ opened # << >>) => (GmsShown = 3 /\ ExitedOk))

C6_Witness ==
  /\ pc = "gms_wait"
  /\ Len(gmsCalls) = 2
  /\ GmsShown = 2
  /\ keys = 1

\* C7: if, after both extractions on valid images, an image's keypoints and
\* descriptors are empty, the driver computes no matches and runs no GMS,
\* and exits non-zero with one std::cerr line.
C7_EmptyExtractionIsFatal ==
  ( /\ pc \notin {"load", "show1", "show2", "validate", "detect1", "detect2"}
    /\ ValidInputs
    /\ \/ (dog01KP = << >> /\ dog01Desc.rows = 0)
       \/ (dog02KP = << >> /\ dog02Desc.rows = 0) )
  => /\ pc \in {"checkDetect", "exited"}
     /\ nMatchCalls = 0
     /\ gmsCalls = << >>
     /\ (Exited => (ExitedFailure /\ Len(stderr) = 1))

\* C8: if the toolkit could not create the window of some GMS
\* configuration, the run still ends with three GMS calls and exit code 0.
C8_DisplayFailureNonFatal ==
  (faultAt # {} /\ faultAt \subseteq GmsWindowNames)
    => /\ pc # "aborted"
       /\ (Exited => (Len(gmsCalls) = 3 /\ exitCode = << 0 >>))

\* C9: the GMS calls carry the flags (false, false), (true, true),
\* (false, true) in this order, three of them on a successful exit; the
\* k-th GMS window created is the one whose name describes the flags of
\* the k-th call, and while the driver waits it shows that call's result;
\* the three names are pairwise distinct.
C9_FlagsOrderAndWindowNames ==
  /\ IsPrefix([i \in 1..Len(gmsCalls) |->
                 << gmsCalls[i].withRotation, gmsCalls[i].withScale >>],
              FlagOrder)
  /\ (ExitedOk => Len(gmsCalls) = 3)
  /\ \A k \in 1..(Len(opened) - 2) :
       /\ k <= Len(gmsCalls)
       /\ opened[k + 2] =
            NameForFlags(gmsCalls[k].withRotation, gmsCalls[k].withScale)
  /\ (pc = "gms_wait" =>
        \E i \in 1..Len(windows) :
          /\ windows[i].name =
               NameForFlags(gmsCalls[Len(gmsCalls)].withRotation,
                            gmsCalls[Len(gmsCalls)].withScale)
          /\ windows[i].image.src = "drawMatches"
          /\ windows[i].image.nlines = Len(matchesGMS))
  /\ Cardinality({ GmsConfigs[k].windowName : k \in 1..Len(GmsConfigs) }) = 3

C9_Witness ==
  /\ ExitedOk
  /\ Len(gmsCalls) = 3
  /\ gmsCalls[3].withScale /\ ~gmsCalls[3].withRotation
  /\ opened[5] = "GMS with Scale Support and No Rotation"

\* C10: every run terminates when each key wait is answered; a successful
\* run has consumed exactly three key presses, all before the windows are
\* closed, and a failed run none.
C10_TerminatesAfterThreeWaits ==
  /\ <>Exited
  /\ [](/\ (pc = "cleanup" => keys = 3)
        /\ (ExitedOk => keys = 3)
        /\ (ExitedFailure => keys = 0)
        /\ (Exited => (ExitedOk \/ ExitedFailure)))

C10_Witness ==
  /\ ExitedOk
  /\ keys = 3
  /\ windows = << >>

====
